---- MODULE Spec2Model ----
(***************************************************************************)
(* The Atto editor session of src/src/main.rs: the line buffer, the        *)
(* cursor, the vertical and horizontal scroll offsets, the colon-command   *)
(* line and the event loop that dispatches key and mouse events.           *)
(*                                                                         *)
(* A line is a sequence of one-character strings, the buffer a sequence    *)
(* of lines.  The file named on the command line is shared with the rest   *)
(* of the machine, so what a read returns and whether a read or a write    *)
(* succeeds are choices of the environment.                                *)
(*                                                                         *)
(* usize arithmetic: a subtraction below zero panics in a build with       *)
(* overflow checks and wraps around 2^64 in a build without them.  Both    *)
(* outcomes are modelled wherever the wrapped value does not itself lead   *)
(* to a panic (an index far past the end of the buffer).                   *)
(***************************************************************************)
EXTENDS Integers, Sequences, FiniteSets, TLC

\* ------------------------------------------------------------- bounds
MaxLines == 3      \* new_line is delivered only below this line count
MaxChars == 2      \* printable keys are delivered only below this much text
MaxHeight == 3     \* terminal heights 1..MaxHeight
MaxWidth == 2      \* SpecNarrow: terminal widths 1..MaxWidth
WideWidth == 8     \* Spec: a terminal wider than any line of the bounded text
MaxCmdLen == 2     \* command-line characters are delivered only below this length
MaxFileLen == 2    \* length of the file contents a read may return

\* ------------------------------------------------- program constants
HScrollStride == 7 \* move_right: horizontal_scroll_offset += 7
PageMargin == 3    \* page_down: ... - 3
ScrollMargin == 2  \* move_down: terminal_height - 2
TabWidth == 4      \* input_tab: four spaces, cursor_x += 4

VARIABLES
    buffer,                     \* Vec<String>
    cursor_x, cursor_y,         \* usize
    scroll_offset,              \* usize
    horizontal_scroll_offset,   \* usize
    terminal_height, terminal_width,
    filename,                   \* "none" | "some"
    key_bindings,               \* KeyBindings
    command_mode, command_input,
    vim_mode,
    pc,                         \* "load" | "draw" | "read" | "read2": where main/run stands
    status,                     \* "running" | "exited" | "io_error" | "panicked"
    last_op,                    \* the operation the last step called
    io_result,                  \* outcome of the file access of the last step
    snap                        \* buffer and cursor before a new_line just made

edit == <<buffer, cursor_x, cursor_y, scroll_offset, horizontal_scroll_offset>>
term == <<terminal_height, terminal_width, filename, key_bindings, vim_mode>>
cmd == <<command_mode, command_input>>
vars == <<buffer, cursor_x, cursor_y, scroll_offset, horizontal_scroll_offset,
          terminal_height, terminal_width, filename, key_bindings,
          command_mode, command_input, vim_mode, pc, status, last_op,
          io_result, snap>>

\* ------------------------------------------------------------ helpers
Min(a, b) == IF a < b THEN a ELSE b

RECURSIVE TotalChars(_)
TotalChars(b) == IF b = <<>> THEN 0 ELSE Len(Head(b)) + TotalChars(Tail(b))

\* String::insert / insert_str at byte offset i (0-based)
InsertAt(line, i, s) == SubSeq(line, 1, i) \o s \o SubSeq(line, i + 1, Len(line))
\* String::remove at byte offset i (0-based)
RemoveAt(line, i) == SubSeq(line, 1, i) \o SubSeq(line, i + 2, Len(line))
\* Vec::insert at index i (0-based)
VecInsert(b, i, line) == SubSeq(b, 1, i) \o <<line>> \o SubSeq(b, i + 1, Len(b))
\* Vec::remove at index i (0-based)
VecRemove(b, i) == SubSeq(b, 1, i) \o SubSeq(b, i + 2, Len(b))
\* buffer[i] with a 0-based index
Line(b, i) == b[i + 1]
SetLine(b, i, line) == [b EXCEPT ![i + 1] = line]

NoSnap == [valid |-> FALSE, joined |-> FALSE]

\* -------------------------------------------------------- key bindings
NONE == "NONE"
CONTROL == "CONTROL"
\* a (KeyCode, KeyModifiers) pair; ch is "" unless code is "Char"
Key(code, ch, mods) == [code |-> code, ch |-> ch, mods |-> mods]
Ctrl(c) == Key("Char", c, CONTROL)
Plain(code) == Key(code, "", NONE)

PresetNames == {"atto", "nano", "micro", "emacs", "unknown"}

\* variant of the resolver whose default table binds quit to the key of save
KeyBindingsOf_default_clash(preset) ==
    CASE preset = "atto" ->
           [save |-> Ctrl("w"), quit |-> Ctrl("q"),
            move_up |-> Plain("Up"), move_down |-> Plain("Down"),
            move_left |-> Plain("Left"), move_right |-> Plain("Right")]
      [] preset = "nano" ->
           [save |-> Ctrl("o"), quit |-> Ctrl("x"),
            move_up |-> Plain("Up"), move_down |-> Plain("Down"),
            move_left |-> Plain("Left"), move_right |-> Plain("Right")]
      [] preset = "micro" ->
           [save |-> Ctrl("s"), quit |-> Ctrl("q"),
            move_up |-> Plain("Up"), move_down |-> Plain("Down"),
            move_left |-> Plain("Left"), move_right |-> Plain("Right")]
      [] preset = "emacs" ->
           [save |-> Ctrl("x"), quit |-> Ctrl("c"),
            move_up |-> Ctrl("p"), move_down |-> Ctrl("n"),
            move_left |-> Ctrl("b"), move_right |-> Ctrl("f")]
      [] OTHER ->
           [save |-> Ctrl("t"), quit |-> Ctrl("t"),
            move_up |-> Ctrl("k"), move_down |-> Ctrl("j"),
            move_left |-> Ctrl("h"), move_right |-> Ctrl("l")]

\* the match on the preset name in Atto::new
KeyBindingsOf(preset) ==
    CASE preset = "atto" ->
           [save |-> Ctrl("w"), quit |-> Ctrl("q"),
            move_up |-> Plain("Up"), move_down |-> Plain("Down"),
            move_left |-> Plain("Left"), move_right |-> Plain("Right")]
      [] preset = "nano" ->
           [save |-> Ctrl("o"), quit |-> Ctrl("x"),
            move_up |-> Plain("Up"), move_down |-> Plain("Down"),
            move_left |-> Plain("Left"), move_right |-> Plain("Right")]
      [] preset = "micro" ->
           [save |-> Ctrl("s"), quit |-> Ctrl("q"),
            move_up |-> Plain("Up"), move_down |-> Plain("Down"),
            move_left |-> Plain("Left"), move_right |-> Plain("Right")]
      [] preset = "emacs" ->
           [save |-> Ctrl("x"), quit |-> Ctrl("c"),
            move_up |-> Ctrl("p"), move_down |-> Ctrl("n"),
            move_left |-> Ctrl("b"), move_right |-> Ctrl("f")]
      [] OTHER ->
           [save |-> Ctrl("t"), quit |-> Ctrl("w"),
            move_up |-> Ctrl("k"), move_down |-> Ctrl("j"),
            move_left |-> Ctrl("h"), move_right |-> Ctrl("l")]

\* ------------------------------------------------------------- events
\* The keys the user presses.  In the key-binding style no arm of the
\* match tells one unmodified printable key from another, and ":" stands
\* for all of them.  In the vim style ":" is the trigger key; outside the
\* command line every other printable key is text alike, and "w" stands
\* for them; on the command line "w" and "q" spell the commands.
KeyChars ==
    IF vim_mode
    THEN (IF command_mode THEN {"w", "q", ":"} ELSE {"w", ":"})
    ELSE {":"}
\* Ctrl-r is the one control key the match names; the bound ones are BoundKeys
CtrlChars == IF vim_mode THEN {"w"} ELSE {"r"}
SpecialCodes == {"Up", "Down", "Left", "Right", "Tab", "PageUp", "PageDown",
                 "Backspace", "Enter", "Esc"}
\* the keys of the active table; the vim branch never looks at the table
BoundKeys ==
    IF vim_mode THEN {} ELSE {key_bindings[a] : a \in DOMAIN key_bindings}
KeyEvents == {Key("Char", c, NONE) : c \in KeyChars}
             \cup {Ctrl(c) : c \in CtrlChars}
             \cup {Plain(code) : code \in SpecialCodes}
             \cup BoundKeys
\* Event::Mouse with its MouseEventKind, and Event::Resize
OtherEvents == {"ScrollUp", "ScrollDown", "MouseMoved", "Resize"}

\* ------------------------------------------------------------ the file
FileChars == {":", "\n"}
FileContents == UNION {[1..n -> FileChars] : n \in 0..MaxFileLen}

\* str::lines(): split at "\n"; a final line ending is optional
RECURSIVE StrLines(_, _)
StrLines(s, cur) ==
    IF s = <<>> THEN (IF cur = <<>> THEN <<>> ELSE <<cur>>)
    ELSE IF Head(s) = "\n" THEN <<cur>> \o StrLines(Tail(s), <<>>)
    ELSE StrLines(Tail(s), Append(cur, Head(s)))

\* variant of LoadLines without the arm for empty contents
LoadLines_no_empty_arm(contents) == StrLines(contents, <<>>)

\* read_file: the buffer built from the contents read
LoadLines(contents) ==
    IF contents = <<>> THEN << <<>> >> ELSE StrLines(contents, <<>>)

\* str::trim on the command input
RECURSIVE TrimStart(_)
TrimStart(s) == IF s # <<>> /\ Head(s) = " " THEN TrimStart(Tail(s)) ELSE s
RECURSIVE TrimEnd(_)
TrimEnd(s) ==
    IF s # <<>> /\ s[Len(s)] = " " THEN TrimEnd(SubSeq(s, 1, Len(s) - 1)) ELSE s
Trim(s) == TrimEnd(TrimStart(s))

\* ------------------------------------------------- editor operations
\* Each operation is the whole method: it either completes, leaving the
\* session running, or panics (an index or offset out of range, a usize
\* subtraction below zero under overflow checks).
Commit(b, x, y, s, h) ==
    /\ buffer' = b
    /\ cursor_x' = x
    /\ cursor_y' = y
    /\ scroll_offset' = s
    /\ horizontal_scroll_offset' = h
    /\ status' = "running"

Skip == UNCHANGED edit /\ status' = "running"

Crash == UNCHANGED edit /\ status' = "panicked"

\* the closing line of page_up, page_down, move_up and move_down:
\* cursor_x = min(cursor_x, buffer[cursor_y].len()), at the new row y
ClampTo(y, s) ==
    IF y < Len(buffer)
    THEN Commit(buffer, Min(cursor_x, Len(Line(buffer, y))), y, s,
                horizontal_scroll_offset)
    ELSE Crash

page_up ==
    IF scroll_offset > 0
    THEN LET scroll_amount == Min(scroll_offset, terminal_height)
         IN ClampTo(scroll_offset - scroll_amount, scroll_offset - scroll_amount)
    ELSE ClampTo(0, scroll_offset)

\* scroll_offset + terminal_height - 3 and buffer.len() - 3 below zero:
\* a panic under overflow checks, and otherwise a row near 2^64, at which
\* buffer[cursor_y] panics
page_down ==
    IF scroll_offset + terminal_height < Len(buffer)
    THEN LET scroll_amount ==
                 Min(terminal_height,
                     Len(buffer) - scroll_offset - terminal_height)
             s == scroll_offset + scroll_amount
         IN IF s + terminal_height < PageMargin
            THEN Crash
            ELSE ClampTo(s + terminal_height - PageMargin, s)
    ELSE IF Len(buffer) < PageMargin
         THEN Crash
         ELSE ClampTo(Len(buffer) - PageMargin, scroll_offset)

scroll_up ==
    IF scroll_offset > 0
    THEN Commit(buffer, cursor_x,
                IF cursor_y > 0 THEN cursor_y - 1 ELSE cursor_y,
                scroll_offset - 1, horizontal_scroll_offset)
    ELSE Skip

\* variant of scroll_down that still scrolls when the window ends at the
\* last line (<= where the code has <)
scroll_down_past_end ==
    IF scroll_offset + terminal_height <= Len(buffer)
    THEN Commit(buffer, cursor_x,
                IF cursor_y < Len(buffer) - 1 THEN cursor_y + 1 ELSE cursor_y,
                scroll_offset + 1, horizontal_scroll_offset)
    ELSE Skip

scroll_down ==
    IF scroll_offset + terminal_height < Len(buffer)
    THEN Commit(buffer, cursor_x,
                IF cursor_y < Len(buffer) - 1 THEN cursor_y + 1 ELSE cursor_y,
                scroll_offset + 1, horizontal_scroll_offset)
    ELSE Skip

\* String::insert_str panics when the offset is past the end of the line
input_tab ==
    IF cursor_y < Len(buffer) /\ cursor_x < terminal_width
    THEN IF cursor_x <= Len(Line(buffer, cursor_y))
         THEN Commit(SetLine(buffer, cursor_y,
                             InsertAt(Line(buffer, cursor_y), cursor_x,
                                      [i \in 1..TabWidth |-> " "])),
                     cursor_x + TabWidth, cursor_y, scroll_offset,
                     horizontal_scroll_offset)
         ELSE Crash
    ELSE Skip

move_up ==
    IF cursor_y > 0
    THEN LET y == cursor_y - 1
         IN ClampTo(y, IF y < scroll_offset THEN scroll_offset - 1
                       ELSE scroll_offset)
    ELSE Skip

\* terminal_height - 2 below zero: a panic under overflow checks; without
\* them it wraps, and so does the sum with scroll_offset, which comes to
\* scroll_offset + terminal_height - 2 when that is >= 0 and to 2^64 - 1,
\* above every row, when it is not
move_down ==
    IF Len(buffer) = 0
    THEN Crash
    ELSE IF cursor_y < Len(buffer) - 1
    THEN LET y == cursor_y + 1
             t == scroll_offset + terminal_height - ScrollMargin
         IN \/ terminal_height < ScrollMargin /\ Crash
            \/ ClampTo(y, IF t >= 0 /\ y >= t THEN scroll_offset + 1
                          ELSE scroll_offset)
    ELSE Skip

move_left ==
    IF cursor_x > 0
    THEN LET x == cursor_x - 1
         IN Commit(buffer, x, cursor_y, scroll_offset,
                   IF x < horizontal_scroll_offset
                   THEN horizontal_scroll_offset - 1
                   ELSE horizontal_scroll_offset)
    ELSE Skip

move_right ==
    IF cursor_y < Len(buffer) /\ cursor_x < Len(Line(buffer, cursor_y))
    THEN LET x == cursor_x + 1
         IN Commit(buffer, x, cursor_y, scroll_offset,
                   IF x >= horizontal_scroll_offset + terminal_width
                   THEN horizontal_scroll_offset + HScrollStride
                   ELSE horizontal_scroll_offset)
    ELSE Skip

\* variant of input_char that inserts the character as a line of its own
\* (Vec::insert into the buffer where the code has String::insert)
input_char_as_line(c) ==
    IF cursor_y < Len(buffer) /\ cursor_x < terminal_width - 1
    THEN Commit(VecInsert(buffer, cursor_y, <<c>>),
                cursor_x + 1, cursor_y, scroll_offset,
                horizontal_scroll_offset)
    ELSE Skip

\* String::insert panics when the offset is past the end of the line
input_char(c) ==
    IF cursor_y < Len(buffer) /\ cursor_x < terminal_width - 1
    THEN IF cursor_x <= Len(Line(buffer, cursor_y))
         THEN Commit(SetLine(buffer, cursor_y,
                             InsertAt(Line(buffer, cursor_y), cursor_x, <<c>>)),
                     cursor_x + 1, cursor_y, scroll_offset,
                     horizontal_scroll_offset)
         ELSE Crash
    ELSE Skip

\* buffer[cursor_y] and String::split_off panic out of range
new_line ==
    IF cursor_y < Len(buffer) /\ cursor_x <= Len(Line(buffer, cursor_y))
    THEN LET line == Line(buffer, cursor_y)
             tail == SubSeq(line, cursor_x + 1, Len(line))
             head == SubSeq(line, 1, cursor_x)
             y == cursor_y + 1
         IN Commit(VecInsert(SetLine(buffer, cursor_y, head), y, tail),
                   0, y,
                   IF y >= scroll_offset + terminal_height
                   THEN scroll_offset + 1 ELSE scroll_offset,
                   horizontal_scroll_offset)
    ELSE Crash

\* variant of backspace whose join removes the line without push_str
backspace_join_drops_line ==
    IF cursor_x > 0
    THEN IF cursor_y < Len(buffer) /\ cursor_x - 1 < Len(Line(buffer, cursor_y))
         THEN Commit(SetLine(buffer, cursor_y,
                             RemoveAt(Line(buffer, cursor_y), cursor_x - 1)),
                     cursor_x - 1, cursor_y, scroll_offset,
                     horizontal_scroll_offset)
         ELSE Crash
    ELSE IF cursor_y > 0
    THEN IF cursor_y < Len(buffer)
         THEN LET rest == VecRemove(buffer, cursor_y)
                  y == cursor_y - 1
              IN Commit(rest, Len(Line(rest, y)), y,
                        IF y < scroll_offset THEN scroll_offset - 1
                        ELSE scroll_offset,
                        horizontal_scroll_offset)
         ELSE Crash
    ELSE Skip

\* variant of backspace whose join reads the column after push_str, so the
\* cursor lands at the end of the joined line
backspace_column_after_join ==
    IF cursor_x > 0
    THEN IF cursor_y < Len(buffer) /\ cursor_x - 1 < Len(Line(buffer, cursor_y))
         THEN Commit(SetLine(buffer, cursor_y,
                             RemoveAt(Line(buffer, cursor_y), cursor_x - 1)),
                     cursor_x - 1, cursor_y, scroll_offset,
                     horizontal_scroll_offset)
         ELSE Crash
    ELSE IF cursor_y > 0
    THEN IF cursor_y < Len(buffer)
         THEN LET current_line == Line(buffer, cursor_y)
                  rest == VecRemove(buffer, cursor_y)
                  y == cursor_y - 1
              IN Commit(SetLine(rest, y, Line(rest, y) \o current_line),
                        Len(Line(rest, y) \o current_line), y,
                        IF y < scroll_offset THEN scroll_offset - 1
                        ELSE scroll_offset,
                        horizontal_scroll_offset)
         ELSE Crash
    ELSE Skip

\* String::remove and Vec::remove panic out of range
backspace ==
    IF cursor_x > 0
    THEN IF cursor_y < Len(buffer) /\ cursor_x - 1 < Len(Line(buffer, cursor_y))
         THEN Commit(SetLine(buffer, cursor_y,
                             RemoveAt(Line(buffer, cursor_y), cursor_x - 1)),
                     cursor_x - 1, cursor_y, scroll_offset,
                     horizontal_scroll_offset)
         ELSE Crash
    ELSE IF cursor_y > 0
    THEN IF cursor_y < Len(buffer)
         THEN LET current_line == Line(buffer, cursor_y)
                  rest == VecRemove(buffer, cursor_y)
                  y == cursor_y - 1
              IN Commit(SetLine(rest, y, Line(rest, y) \o current_line),
                        Len(Line(rest, y)), y,
                        IF y < scroll_offset THEN scroll_offset - 1
                        ELSE scroll_offset,
                        horizontal_scroll_offset)
         ELSE Crash
    ELSE Skip

\* ------------------------------------------------------ file access
\* write_file: the possible outcomes; without a file name it writes
\* nothing and returns Ok
write_file ==
    IF filename = "some" THEN {"write_ok", "write_err"} ELSE {"write_ok"}

\* read_file: File::open or read_to_string may fail; on success the buffer
\* is rebuilt and the cursor goes to (0, 0), the scroll offsets stay
read_file ==
    IF filename = "some"
    THEN \/ io_result' = "read_err" /\ UNCHANGED edit
         \/ \E contents \in FileContents :
                /\ io_result' = "read_ok"
                /\ buffer' = LoadLines(contents)
                /\ cursor_x' = 0
                /\ cursor_y' = 0
                /\ UNCHANGED <<scroll_offset, horizontal_scroll_offset>>
    ELSE io_result' = "read_ok" /\ UNCHANGED edit

\* ------------------------------------------------------ command line
\* variant of toggle_command_mode that keeps the input when it leaves the
\* command line
toggle_command_mode_keeps_input ==
    /\ command_mode' = ~command_mode
    /\ UNCHANGED command_input

toggle_command_mode ==
    /\ command_mode' = ~command_mode
    /\ command_input' = IF ~command_mode' THEN <<>> ELSE command_input

handle_command_input(c) ==
    IF command_mode
    THEN command_input' = Append(command_input, c) /\ UNCHANGED command_mode
    ELSE UNCHANGED cmd

\* variant of execute_command whose unrecognized arm returns before the
\* input is cleared and the mode toggled
execute_command_unknown_returns ==
    LET c == Trim(command_input)
    IN CASE c = <<"q">> ->
              /\ status' = "exited"
              /\ io_result' = "none"
              /\ UNCHANGED cmd
         [] c = <<"w">> ->
              /\ io_result' \in write_file
              /\ status' = "running"
              /\ command_input' = <<>>
              /\ command_mode' = ~command_mode
         [] c = <<"w", "q">> ->
              /\ io_result' \in write_file
              /\ status' = "exited"
              /\ UNCHANGED cmd
         [] OTHER ->
              /\ io_result' = "none"
              /\ status' = "running"
              /\ UNCHANGED cmd

\* variant of execute_command whose "wq" arm leaves only after a save that
\* succeeded, and otherwise returns to the editor like the "w" arm
execute_command_wq_needs_save ==
    LET c == Trim(command_input)
    IN CASE c = <<"q">> ->
              /\ status' = "exited"
              /\ io_result' = "none"
              /\ UNCHANGED cmd
         [] c = <<"w">> ->
              /\ io_result' \in write_file
              /\ status' = "running"
              /\ command_input' = <<>>
              /\ command_mode' = ~command_mode
         [] c = <<"w", "q">> ->
              /\ io_result' \in write_file
              /\ IF io_result' = "write_ok"
                 THEN status' = "exited" /\ UNCHANGED cmd
                 ELSE /\ status' = "running"
                      /\ command_input' = <<>>
                      /\ command_mode' = ~command_mode
         [] OTHER ->
              /\ io_result' = "none"
              /\ status' = "running"
              /\ command_input' = <<>>
              /\ command_mode' = ~command_mode

\* execute_command: "q" and "wq" leave through process::exit, before the
\* input is cleared; the other arms clear the input and toggle the mode
execute_command ==
    LET c == Trim(command_input)
    IN CASE c = <<"q">> ->
              /\ status' = "exited"
              /\ io_result' = "none"
              /\ UNCHANGED cmd
         [] c = <<"w">> ->
              /\ io_result' \in write_file
              /\ status' = "running"
              /\ command_input' = <<>>
              /\ command_mode' = ~command_mode
         [] c = <<"w", "q">> ->
              /\ io_result' \in write_file
              /\ status' = "exited"
              /\ UNCHANGED cmd
         [] OTHER ->
              /\ io_result' = "none"
              /\ status' = "running"
              /\ command_input' = <<>>
              /\ command_mode' = ~command_mode

\* ------------------------------------------------------- the dispatch
\* the match of the vim_mode branch of run, first arm first
VimOp(k) ==
    IF k.code = "Char" /\ k.ch = ":" THEN "toggle_command_mode"
    ELSE IF k.code = "Enter"
         THEN (IF command_mode THEN "execute_command" ELSE "new_line")
    ELSE IF k.code = "Backspace"
         THEN (IF command_mode THEN "pop" ELSE "backspace")
    ELSE IF k.code = "Esc"
         THEN (IF command_mode THEN "toggle_command_mode" ELSE "none")
    ELSE IF k.code = "Char"
         THEN (IF command_mode THEN "handle_command_input" ELSE "input_char")
    ELSE "none"

\* the match of the key-binding branch of run, first arm first
BoundOp(k) ==
    IF k = key_bindings.quit THEN "quit"
    ELSE IF k = key_bindings.save THEN "write_file"
    ELSE IF k = key_bindings.move_up THEN "move_up"
    ELSE IF k = key_bindings.move_down THEN "move_down"
    ELSE IF k = key_bindings.move_left THEN "move_left"
    ELSE IF k = key_bindings.move_right THEN "move_right"
    ELSE IF k.code = "Up" THEN "move_up"
    ELSE IF k.code = "Down" THEN "move_down"
    ELSE IF k.code = "Left" THEN "move_left"
    ELSE IF k.code = "Right" THEN "move_right"
    ELSE IF k = Ctrl("r") THEN "read_file"
    ELSE IF k.code = "Tab" THEN "input_tab"
    ELSE IF k.code = "PageUp" THEN "page_up"
    ELSE IF k.code = "PageDown" THEN "page_down"
    ELSE IF k.code = "Backspace" THEN "backspace"
    ELSE IF k.code = "Enter" THEN "new_line"
    ELSE IF k.code = "Char" THEN "input_char"
    ELSE "none"

\* variant of the dispatch that takes the vim branch whatever the flag
Op_ignores_flag(k) == VimOp(k)

Op(k) == IF vim_mode THEN VimOp(k) ELSE BoundOp(k)

\* ------------------------------------------------------------- Init
\* main: Atto::new with the preset and the vim_mode flag of the
\* configuration and the size the terminal reports.  The preset is the one
\* create_default_config writes.
DefaultPreset == "atto"

New(heights, widths, files, presets) ==
    /\ buffer = << <<>> >>
    /\ cursor_x = 0
    /\ cursor_y = 0
    /\ scroll_offset = 0
    /\ horizontal_scroll_offset = 0
    /\ terminal_height \in heights
    /\ terminal_width \in widths
    /\ filename \in files
    /\ key_bindings \in {KeyBindingsOf(preset) : preset \in presets}
    /\ command_mode = FALSE
    /\ command_input = <<>>
    /\ vim_mode \in BOOLEAN
    /\ pc = "load"
    /\ status = "running"
    /\ last_op = "new"
    /\ io_result = "none"
    /\ snap = NoSnap

\* a file named on the command line, in a terminal wider than the text:
\* the horizontal window never moves
Init == New(1..MaxHeight, {WideWidth}, {"some"}, {DefaultPreset})

\* a terminal narrower than the text, with and without a file name
InitNarrow == New({MaxHeight}, 1..MaxWidth, {"none", "some"}, {DefaultPreset})

\* every preset name the configuration may carry, without a file name
InitPresets == New({MaxHeight}, {WideWidth}, {"none"}, PresetNames)

\* ------------------------------------------------------------ actions
\* main: atto.read_file()? before run
Load ==
    /\ status = "running" /\ pc = "load"
    /\ read_file
    /\ status' = IF io_result' = "read_err" THEN "io_error" ELSE "running"
    /\ pc' = "draw"
    /\ last_op' = "load"
    /\ snap' = NoSnap
    /\ UNCHANGED <<term, cmd>>

\* the top of an iteration: terminal.draw(|f| self.render(f)), then
\* execute!(.., MoveTo(.., cursor_y as u16 - scroll_offset as u16 + ..), Show).
\* The buffer is only read.  The subtraction below zero panics under
\* overflow checks and wraps without them.
Draw ==
    /\ status = "running" /\ pc = "draw"
    /\ \/ cursor_y < scroll_offset /\ status' = "panicked" /\ pc' = pc
       \/ status' = "running" /\ pc' = "read"
    /\ last_op' = "render"
    /\ io_result' = "none"
    /\ snap' = IF snap.valid /\ snap.joined THEN NoSnap ELSE snap
    /\ UNCHANGED <<edit, term, cmd>>

\* the loop is at event::read() of "if let Event::Key(key) = event::read()?"
AtFirstRead == status = "running" /\ pc = "read"

\* one iteration that called op on a key event
KeyDone(op) ==
    /\ last_op' = op
    /\ pc' = "draw"
    /\ UNCHANGED term

\* quit binding: break, then main's atto.write_file()?
Quit ==
    /\ AtFirstRead
    /\ \E k \in KeyEvents : Op(k) = "quit"
    /\ io_result' \in write_file
    /\ status' = IF io_result' = "write_err" THEN "io_error" ELSE "exited"
    /\ snap' = NoSnap
    /\ KeyDone("quit")
    /\ UNCHANGED <<edit, cmd>>

\* save binding: self.write_file()?
Save ==
    /\ AtFirstRead
    /\ \E k \in KeyEvents : Op(k) = "write_file"
    /\ io_result' \in write_file
    /\ status' = IF io_result' = "write_err" THEN "io_error" ELSE "running"
    /\ snap' = NoSnap
    /\ KeyDone("write_file")
    /\ UNCHANGED <<edit, cmd>>

\* Ctrl-r: self.read_file()?
Reload ==
    /\ AtFirstRead
    /\ \E k \in KeyEvents : Op(k) = "read_file"
    /\ read_file
    /\ status' = IF io_result' = "read_err" THEN "io_error" ELSE "running"
    /\ snap' = NoSnap
    /\ KeyDone("read_file")
    /\ UNCHANGED cmd

\* a key that reaches one of the cursor and viewport operations
Edit(op) ==
    /\ AtFirstRead
    /\ \E k \in KeyEvents : Op(k) = op
    /\ io_result' = "none"
    /\ snap' = NoSnap
    /\ KeyDone(op)
    /\ UNCHANGED cmd

MoveUp == move_up /\ Edit("move_up")
MoveDown == move_down /\ Edit("move_down")
MoveLeft == move_left /\ Edit("move_left")
MoveRight == move_right /\ Edit("move_right")
PageUp == page_up /\ Edit("page_up")
PageDown == page_down /\ Edit("page_down")

InputTab ==
    /\ TotalChars(buffer) = 0
    /\ input_tab
    /\ Edit("input_tab")

InputChar ==
    /\ AtFirstRead
    /\ TotalChars(buffer) < MaxChars
    /\ \E k \in KeyEvents : Op(k) = "input_char" /\ input_char(k.ch)
    /\ io_result' = "none"
    /\ snap' = NoSnap
    /\ KeyDone("input_char")
    /\ UNCHANGED cmd

NewLine ==
    /\ AtFirstRead
    /\ Len(buffer) < MaxLines
    /\ \E k \in KeyEvents : Op(k) = "new_line"
    /\ new_line
    /\ io_result' = "none"
    /\ snap' = IF status' = "running"
               THEN [valid |-> TRUE, joined |-> FALSE, buffer |-> buffer,
                     cursor_x |-> cursor_x, cursor_y |-> cursor_y]
               ELSE NoSnap
    /\ KeyDone("new_line")
    /\ UNCHANGED cmd

Backspace ==
    /\ AtFirstRead
    /\ \E k \in KeyEvents : Op(k) = "backspace"
    /\ backspace
    /\ io_result' = "none"
    /\ snap' = IF snap.valid /\ ~snap.joined /\ status' = "running"
               THEN [snap EXCEPT !.joined = TRUE]
               ELSE NoSnap
    /\ KeyDone("backspace")
    /\ UNCHANGED cmd

\* ':' in either mode, Esc in command mode
ToggleCommandMode ==
    /\ AtFirstRead
    /\ \E k \in KeyEvents : Op(k) = "toggle_command_mode"
    /\ toggle_command_mode
    /\ status' = "running"
    /\ io_result' = "none"
    /\ snap' = NoSnap
    /\ KeyDone("toggle_command_mode")
    /\ UNCHANGED edit

HandleCommandInput ==
    /\ AtFirstRead
    /\ Len(command_input) < MaxCmdLen
    /\ \E k \in KeyEvents :
           Op(k) = "handle_command_input" /\ handle_command_input(k.ch)
    /\ status' = "running"
    /\ io_result' = "none"
    /\ snap' = NoSnap
    /\ KeyDone("handle_command_input")
    /\ UNCHANGED edit

\* Backspace in command mode: self.command_input.pop()
CommandPop ==
    /\ AtFirstRead
    /\ \E k \in KeyEvents : Op(k) = "pop"
    /\ command_input' = IF command_input = <<>> THEN <<>>
                        ELSE SubSeq(command_input, 1, Len(command_input) - 1)
    /\ status' = "running"
    /\ io_result' = "none"
    /\ snap' = NoSnap
    /\ KeyDone("pop")
    /\ UNCHANGED <<edit, command_mode>>

ExecuteCommand ==
    /\ AtFirstRead
    /\ \E k \in KeyEvents : Op(k) = "execute_command"
    /\ execute_command
    /\ snap' = NoSnap
    /\ KeyDone("execute_command")
    /\ UNCHANGED edit

\* a key no arm matches: _ => {}
Unmatched ==
    /\ AtFirstRead
    /\ \E k \in KeyEvents : Op(k) = "none"
    /\ status' = "running"
    /\ io_result' = "none"
    /\ snap' = NoSnap
    /\ KeyDone("none")
    /\ UNCHANGED <<edit, cmd>>

\* the first event::read() returns an event that is no key: the if-let
\* fails, the event is gone, and the else-if calls event::read() again
FirstReadOther(e) ==
    /\ AtFirstRead
    /\ e \in OtherEvents
    /\ pc' = "read2"
    /\ status' = "running"
    /\ last_op' = "none"
    /\ io_result' = "none"
    /\ snap' = NoSnap
    /\ UNCHANGED <<edit, term, cmd>>

FirstReadNotKey == \E e \in OtherEvents : FirstReadOther(e)

\* the loop is at event::read() of "else if let Event::Mouse(..) = event::read()?"
AtSecondRead == status = "running" /\ pc = "read2"

SecondDone(op) ==
    /\ last_op' = op
    /\ pc' = "draw"
    /\ io_result' = "none"
    /\ snap' = NoSnap
    /\ UNCHANGED <<term, cmd>>

\* the second read returns Event::Mouse with MouseEventKind::ScrollUp
ScrollUp ==
    /\ AtSecondRead
    /\ "ScrollUp" \in OtherEvents
    /\ scroll_up
    /\ SecondDone("scroll_up")

ScrollDown ==
    /\ AtSecondRead
    /\ "ScrollDown" \in OtherEvents
    /\ scroll_down
    /\ SecondDone("scroll_down")

\* the second read returns a key, a resize or another mouse event
SecondReadIgnored ==
    /\ AtSecondRead
    /\ \/ \E k \in KeyEvents : TRUE
       \/ \E e \in OtherEvents \ {"ScrollUp", "ScrollDown"} : TRUE
    /\ status' = "running"
    /\ SecondDone("none")
    /\ UNCHANGED edit

Next ==
    \/ Load
    \/ Draw
    \/ Quit
    \/ Save
    \/ Reload
    \/ MoveUp
    \/ MoveDown
    \/ MoveLeft
    \/ MoveRight
    \/ PageUp
    \/ PageDown
    \/ InputTab
    \/ InputChar
    \/ NewLine
    \/ Backspace
    \/ ToggleCommandMode
    \/ HandleCommandInput
    \/ CommandPop
    \/ ExecuteCommand
    \/ Unmatched
    \/ FirstReadNotKey
    \/ ScrollUp
    \/ ScrollDown
    \/ SecondReadIgnored

Spec == Init /\ [][Next]_vars

SpecNarrow == InitNarrow /\ [][Next]_vars

SpecPresets == InitPresets /\ [][Next]_vars

\* ============================================================ claims
Running == status = "running"

InWindow ==
    scroll_offset <= cursor_y /\ cursor_y < scroll_offset + terminal_height

InHWindow ==
    /\ horizontal_scroll_offset <= cursor_x
    /\ cursor_x < horizontal_scroll_offset + terminal_width

\* ---- C1
\* C1: in every state the session reaches, the cursor column is at most
\* the length of the line the cursor is on:
\* cursor_x <= len(buffer[cursor_y]).
C1_ColumnWithinLine ==
    Running =>
        /\ cursor_y < Len(buffer)
        /\ cursor_x <= Len(Line(buffer, cursor_y))

\* ---- C2
\* C2: each of move_up, move_down, page_up, page_down, scroll_up,
\* scroll_down, new_line, backspace, input_char and input_tab, started with
\* the cursor row inside the vertical window, ends with it inside:
\* scroll_offset <= cursor_y < scroll_offset + terminal_height.
WindowOps ==
    {"move_up", "move_down", "page_up", "page_down", "scroll_up",
     "scroll_down", "new_line", "backspace", "input_char", "input_tab"}

C2_RowWithinWindow ==
    [][(InWindow /\ last_op' \in WindowOps /\ status' = "running")
           => InWindow']_vars

\* ---- C3
\* C3: no operation panics, whatever the buffer length >= 1 and the
\* terminal height and width >= 1: no index is out of range and no
\* subtraction goes below zero.
C3_NoPanic == status # "panicked"

\* ---- C4
\* C4: the buffer always holds at least one line, an empty one when there
\* is no text.
C4_BufferNeverEmpty == Len(buffer) >= 1

\* C4: a backspace at column 0 has joined two lines into the only line left
C4_Witness ==
    /\ Running
    /\ last_op = "backspace"
    /\ snap.joined
    /\ Len(buffer) = 1

\* ---- C5
\* C5: move_up, move_down, move_left and move_right, started with the
\* cursor column inside the horizontal window, end with it inside:
\* horizontal_scroll_offset <= cursor_x
\*     < horizontal_scroll_offset + terminal_width.
MoveOps == {"move_up", "move_down", "move_left", "move_right"}

C5_ColumnWithinWindow ==
    [][(InHWindow /\ last_op' \in MoveOps /\ status' = "running")
           => InHWindow']_vars

\* ---- C6
\* C6: new_line at a valid cursor followed at once by backspace gives back
\* the buffer and the cursor position from before the new_line.
C6_SplitJoinRoundTrip ==
    (Running /\ snap.valid /\ snap.joined) =>
        /\ buffer = snap.buffer
        /\ cursor_x = snap.cursor_x
        /\ cursor_y = snap.cursor_y

\* C6: the round trip of a split in the middle of a line
C6_Witness ==
    /\ Running
    /\ snap.valid /\ snap.joined
    /\ last_op = "backspace"
    /\ snap.cursor_x > 0
    /\ snap.cursor_x < Len(Line(snap.buffer, snap.cursor_y))

\* ---- C7
\* C7: input_char, input_tab and backspace at a column > 0 keep the number
\* of lines and every line but the cursor's; an editing operation changes
\* the number of lines only by +1 in new_line and by -1 in backspace at
\* column 0 of a row > 0.
OtherLinesKept ==
    /\ Len(buffer') = Len(buffer)
    /\ \A i \in 0..(Len(buffer) - 1) :
           i # cursor_y => Line(buffer', i) = Line(buffer, i)

EditOps ==
    WindowOps \cup {"move_left", "move_right", "toggle_command_mode",
                    "handle_command_input", "pop", "execute_command",
                    "write_file", "quit", "none", "render"}

C7_LineCount ==
    [][/\ (\/ last_op' \in {"input_char", "input_tab"}
           \/ last_op' = "backspace" /\ cursor_x > 0) => OtherLinesKept
       /\ (last_op' \in EditOps /\ Len(buffer') # Len(buffer)) =>
              \/ last_op' = "new_line" /\ Len(buffer') = Len(buffer) + 1
              \/ /\ last_op' = "backspace"
                 /\ cursor_x = 0 /\ cursor_y > 0
                 /\ Len(buffer') = Len(buffer) - 1]_vars

\* C7: a character has been typed into one line of several while another
\* line holds text
C7_Witness ==
    /\ Running
    /\ last_op = "input_char"
    /\ Len(buffer) >= 2
    /\ \E i \in 0..(Len(buffer) - 1) : i # cursor_y /\ Line(buffer, i) # <<>>

\* ---- C8
\* C8: a wheel event the terminal delivers is dispatched to scroll_up or
\* scroll_down before the next event is read, and an iteration of the loop
\* reads one event: no event is read and dropped.
C8_WheelDispatched ==
    [][/\ FirstReadOther("ScrollUp") => last_op' = "scroll_up"
       /\ FirstReadOther("ScrollDown") => last_op' = "scroll_down"
       /\ pc' # "read2"]_vars

\* ---- C9
\* C9: the command "wq" attempts the save and then ends the process,
\* whether the save succeeded or failed, and changes nothing else.
C9_WqSavesThenExits ==
    [][(last_op' = "execute_command" /\ Trim(command_input) = <<"w", "q">>)
           => /\ io_result' \in {"write_ok", "write_err"}
              /\ status' = "exited"
              /\ UNCHANGED <<edit, term, cmd>>]_vars

\* C9: "wq" has ended the session after a save that failed
C9_Witness ==
    /\ status = "exited"
    /\ last_op = "execute_command"
    /\ Trim(command_input) = <<"w", "q">>
    /\ io_result = "write_err"

\* ---- C10
\* C10: a file operation that fails (the save binding, Ctrl-r, the command
\* "w") leaves the session running with its state as it was; only "wq"
\* ends it on a failure.
C10_FailureKeepsSession ==
    [][(/\ io_result' \in {"write_err", "read_err"}
        /\ \/ last_op' \in {"write_file", "read_file"}
           \/ last_op' = "execute_command" /\ Trim(command_input) = <<"w">>)
           => status' = "running" /\ UNCHANGED edit]_vars

\* a step of the loop that read the key k and called what the match
\* selects for it
Dispatched(k) ==
    /\ AtFirstRead
    /\ k \in KeyEvents
    /\ pc' = "draw"
    /\ last_op' = Op(k)

\* ---- C11
\* C11: after Enter on the command line with an input that does not end
\* the session ("w", saved or not, or any input that is no command, the
\* empty one included) the mode is Normal and command_input is empty.
C11_EnterReturnsToNormal ==
    (Running /\ last_op = "execute_command") =>
        ~command_mode /\ command_input = <<>>

\* C11: "w" has been executed, its save failed, and the editor goes on
C11_Witness ==
    /\ Running
    /\ last_op = "execute_command"
    /\ io_result = "write_err"
    /\ ~command_mode

\* ---- C12
\* C12: with vim_mode false, command_mode is false and command_input is
\* empty in every state the session reaches.
C12_CommandLineNeedsVimMode ==
    ~vim_mode => ~command_mode /\ command_input = <<>>

\* C12: the trigger key ":" has been pressed with vim_mode false, and went
\* into the text
C12_Witness ==
    /\ Running
    /\ ~vim_mode
    /\ last_op = "input_char"
    /\ \E i \in 0..(Len(buffer) - 1) :
           \E j \in 1..Len(Line(buffer, i)) : Line(buffer, i)[j] = ":"

\* ---- C13
\* C13: in Normal mode, whatever vim_mode is, a key equal to the quit,
\* save, move-up, move-down, move-left or move-right binding of the active
\* table calls that action, and never a structural key's operation or
\* input_char.
BoundAction ==
    [save |-> "write_file", quit |-> "quit", move_up |-> "move_up",
     move_down |-> "move_down", move_left |-> "move_left",
     move_right |-> "move_right"]

C13_BindingsMatchedFirst ==
    [][\A k \in KeyEvents : \A a \in DOMAIN BoundAction :
           (Dispatched(k) /\ ~command_mode /\ k = key_bindings[a])
               => last_op' = BoundAction[a]]_vars

\* ---- C14
\* C14: every preset name, an unrecognized one included, resolves to a
\* table that binds all six actions; every unrecognized name resolves to
\* the same default table; and within a resolved table no two actions have
\* the same (key, modifiers) pair.
RecognizedPresets == {"atto", "nano", "micro", "emacs"}

FullyBound(table) ==
    /\ DOMAIN table = DOMAIN BoundAction
    /\ \A a \in DOMAIN table :
           /\ table[a].code # ""
           /\ table[a].mods \in {NONE, CONTROL}

NoSharedKey(table) ==
    \A a, b \in DOMAIN table : a # b => table[a] # table[b]

C14_ResolverTotal ==
    /\ \A preset \in PresetNames \cup {"bogus-name", ""} :
           /\ FullyBound(KeyBindingsOf(preset))
           /\ NoSharedKey(KeyBindingsOf(preset))
           /\ preset \notin RecognizedPresets =>
                  KeyBindingsOf(preset) = KeyBindingsOf("unknown")
    /\ FullyBound(key_bindings)
    /\ NoSharedKey(key_bindings)

\* C14: a session under an unrecognized preset name has reached an action
\* through a key of the default table
C14_Witness ==
    /\ Running
    /\ ~vim_mode
    /\ key_bindings = KeyBindingsOf("unknown")
    /\ key_bindings \notin {KeyBindingsOf(preset) : preset \in RecognizedPresets}
    /\ last_op = "move_up"
    /\ cursor_y < Len(buffer) - 1

\* ---- C15
\* C15: on the command line every printable character, ":" included, is
\* appended to command_input and the mode stays CommandLine; only Escape
\* and Enter leave the command line.
C15_PrintableAppends ==
    [][\A k \in KeyEvents :
           (Dispatched(k) /\ command_mode) =>
               /\ (k.code = "Char" /\ k.mods = NONE) =>
                      /\ command_mode'
                      /\ command_input' = Append(command_input, k.ch)
               /\ ~command_mode' => k.code \in {"Esc", "Enter"}]_vars

\* ---- C16
\* C16: from scroll_offset <= buffer length - terminal_height, a
\* scroll_down keeps scroll_offset <= buffer length - terminal_height and
\* raises it by at most 1, and at scroll_offset = buffer length -
\* terminal_height it changes neither the offsets nor the cursor; a
\* scroll_up at scroll_offset = 0 changes nothing.
C16_WheelSaturates ==
    [][/\ (/\ last_op' = "scroll_down"
           /\ scroll_offset + terminal_height <= Len(buffer)) =>
              /\ scroll_offset' + terminal_height <= Len(buffer')
              /\ scroll_offset <= scroll_offset'
              /\ scroll_offset' <= scroll_offset + 1
              /\ scroll_offset + terminal_height = Len(buffer) =>
                     UNCHANGED edit
       /\ (last_op' = "scroll_up" /\ scroll_offset = 0) =>
              UNCHANGED edit]_vars

\* C16: a wheel-down event has been dispatched and the window, scrolled,
\* ends at the last line
C16_Witness ==
    /\ Running
    /\ last_op = "scroll_down"
    /\ scroll_offset > 0
    /\ scroll_offset + terminal_height = Len(buffer)

\* ---- C17
\* C17: a scroll_up or scroll_down that changes scroll_offset moves the
\* cursor row by the same amount when the moved row is inside the new
\* window [scroll_offset, scroll_offset + terminal_height), and leaves the
\* cursor row as it was when it is not.
C17_WheelMovesCursorInWindow ==
    [][(last_op' \in {"scroll_up", "scroll_down"}
        /\ scroll_offset' # scroll_offset) =>
           LET moved == cursor_y + (scroll_offset' - scroll_offset)
           IN cursor_y' =
                  IF /\ scroll_offset' <= moved
                     /\ moved < scroll_offset' + terminal_height
                  THEN moved ELSE cursor_y]_vars

\* ---- C18
\* C18: move_up and move_down leave scroll_offset alone when the new
\* cursor row is inside [scroll_offset, scroll_offset + terminal_height),
\* and otherwise change it by the least amount that brings the row inside.
C18_MinimalScroll ==
    [][(last_op' \in {"move_up", "move_down"} /\ status' = "running") =>
           scroll_offset' =
               IF cursor_y' < scroll_offset THEN cursor_y'
               ELSE IF cursor_y' >= scroll_offset + terminal_height
               THEN cursor_y' - terminal_height + 1
               ELSE scroll_offset]_vars

\* ---- C19
\* C19: backspace with the cursor at (row, 0), row > 0, appends line row to
\* line row - 1 and removes line row: one line fewer, the other lines as
\* they were and in order, and the cursor at (row - 1, the length line
\* row - 1 had).
C19_BackspaceJoins ==
    [][(/\ last_op' = "backspace"
        /\ cursor_x = 0 /\ cursor_y > 0 /\ cursor_y < Len(buffer)) =>
           /\ status' = "running"
           /\ Len(buffer') = Len(buffer) - 1
           /\ Line(buffer', cursor_y - 1) =
                  Line(buffer, cursor_y - 1) \o Line(buffer, cursor_y)
           /\ \A i \in 0..(Len(buffer) - 1) :
                  /\ i < cursor_y - 1 => Line(buffer', i) = Line(buffer, i)
                  /\ i > cursor_y => Line(buffer', i - 1) = Line(buffer, i)
           /\ cursor_y' = cursor_y - 1
           /\ cursor_x' = Len(Line(buffer, cursor_y - 1))]_vars

\* C19: the lines ":" and ":" have been joined into "::", the cursor
\* between the two parts
C19_Witness ==
    /\ Running
    /\ last_op = "backspace"
    /\ buffer = << <<":", ":">> >>
    /\ cursor_x = 1 /\ cursor_y = 0

\* ---- C20
\* C20: in Normal mode a printable character that reaches no binding is
\* inserted at the cursor whenever cursor_y < buffer length and cursor_x <=
\* the length of that line, whatever cursor_x is against the terminal
\* width: the line grows by that character at offset cursor_x and cursor_x
\* advances by 1.
C20_CharInsertedInBounds ==
    [][\A k \in KeyEvents :
           (/\ Dispatched(k)
            /\ Op(k) = "input_char"
            /\ ~command_mode
            /\ cursor_y < Len(buffer)
            /\ cursor_x <= Len(Line(buffer, cursor_y))) =>
               /\ buffer' = SetLine(buffer, cursor_y,
                                    InsertAt(Line(buffer, cursor_y),
                                             cursor_x, <<k.ch>>))
               /\ cursor_x' = cursor_x + 1
               /\ cursor_y' = cursor_y]_vars

\* ---- C21
\* C21: in every state, if the mode is Normal (command_mode false) then
\* command_input is empty; Escape on the command line clears command_input
\* and returns to Normal without executing a command and without changing
\* the buffer, the cursor or the scroll offsets; Escape in Normal mode does
\* not enter the command line.
C21_NormalHasNoInput ==
    /\ [](~command_mode => command_input = <<>>)
    /\ [][/\ (Dispatched(Plain("Esc")) /\ command_mode) =>
                 /\ ~command_mode'
                 /\ command_input' = <<>>
                 /\ last_op' = "toggle_command_mode"
                 /\ status' = "running"
                 /\ io_result' = "none"
                 /\ UNCHANGED edit
          /\ (Dispatched(Plain("Esc")) /\ ~command_mode) =>
                 /\ UNCHANGED cmd
                 /\ UNCHANGED edit]_vars

\* C21: the command line has been left through toggle_command_mode and
\* the session is in Normal mode
C21_Witness ==
    /\ Running
    /\ vim_mode
    /\ last_op = "toggle_command_mode"
    /\ ~command_mode
    /\ command_input = <<>>

====
